---- MODULE Spec2Model ----
(***************************************************************************)
(* Model of the quantum CSS code constructions of "Tensor Product Codes":  *)
(*   algebra.py  - RingElement / RingMatrix, GroupAlgebraElement /         *)
(*                 GroupAlgebraMatrix, RingLifter, lift_to_binary          *)
(*   HGPCode.py  - HGP (hypergraph product)                                *)
(*   LPCode.py   - LPC (lifted product)                                    *)
(* Every constructor call is one action: pc "call" -> "done".  A matrix is *)
(* a sequence of rows, a row a sequence of entries.                        *)
(***************************************************************************)
EXTENDS Integers, Sequences, FiniteSets, TLC

VARIABLES hgp, gam, lft, bin, lpc

vars == <<hgp, gam, lft, bin, lpc>>

\* ---------------------------------------------------------------- bounds
\* A classical parity-check matrix has at most MaxCells entries.
MaxCells == 4
\* Group orders L range over 1..MaxL in the group-algebra specifications.
MaxL == 4
\* The two group-algebra matrices handed to lift_to_binary hold at most
\* MaxLiftBits coefficient bits together.
MaxLiftBits == 10
\* The ring matrices handed to LPC are 1 x K and K' x 1, K and K' at most
\* MaxRingInner.
MaxRingInner == 2

\* numpy's uint8 arithmetic is modulo 2^8.
UInt8Modulus == 256

\* ------------------------------------------------------------ primitives
Bits == {0, 1}

\* Python's None (an absent argument).
None == << >>

\* A component that the specification at hand does not exercise.
Idle == [pc |-> "idle"]

Rows(M) == Len(M)

Cols(M) == Len(M[1])

BinMatrices(m, n) == [1..m -> [1..n -> Bits]]

\* ndarray.T / csr.T
Transpose(M) == [j \in 1..Cols(M) |-> [i \in 1..Rows(M) |-> M[i][j]]]

\* scipy.sparse.eye(n)
Eye(n) == [i \in 1..n |-> [j \in 1..n |-> IF i = j THEN 1 ELSE 0]]

\* scipy.sparse.kron(P, Q): block (i, j) is P[i][j] * Q
Kron(P, Q) ==
  [r \in 1..(Rows(P) * Rows(Q)) |->
    [c \in 1..(Cols(P) * Cols(Q)) |->
      P[((r - 1) \div Rows(Q)) + 1][((c - 1) \div Cols(Q)) + 1]
        * Q[((r - 1) % Rows(Q)) + 1][((c - 1) % Cols(Q)) + 1]]]

\* scipy.sparse.hstack((P, Q))
HStack(P, Q) == [r \in 1..Rows(P) |-> P[r] \o Q[r]]

RECURSIVE Dot(_, _, _)
\* sum of u[i] * v[i] for i in 1..len
Dot(u, v, len) == IF len = 0 THEN 0 ELSE u[len] * v[len] + Dot(u, v, len - 1)

\* P.dot(Q.T): entry (i, j) is the integer inner product of row i of P and
\* row j of Q
DotTranspose(P, Q) ==
  [i \in 1..Rows(P) |-> [j \in 1..Rows(Q) |-> Dot(P[i], Q[j], Cols(P))]]

\* np.all(M % 2 == 0)
AllEvenMod2(M) == \A i \in 1..Rows(M) : \A j \in 1..Cols(M) : M[i][j] % 2 = 0

XorRow(u, v) == [i \in 1..Len(u) |-> (u[i] + v[i]) % 2]

RECURSIVE FirstOne(_, _)
\* least index >= from of a nonzero entry of row u, 0 when there is none
FirstOne(u, from) ==
  IF from > Len(u) THEN 0
  ELSE IF u[from] = 1 THEN from ELSE FirstOne(u, from + 1)

RECURSIVE RankGF2(_)
\* np.linalg.matrix_rank(GF2(M)): rank over the two-element field, by
\* elimination on the first row
RankGF2(M) ==
  IF Len(M) = 0 THEN 0
  ELSE LET p == FirstOne(M[1], 1)
           rest == Tail(M)
       IN IF p = 0 THEN RankGF2(rest)
          ELSE 1 + RankGF2([i \in 1..Len(rest) |->
                              IF rest[i][p] = 1 THEN XorRow(rest[i], M[1])
                              ELSE rest[i]])

\* ------------------------------------------------------------------- HGP
\* HGP._get_parity_check_matrix with the two blocks of H_Z stacked in the
\* wrong order
HGP_get_parity_check_matrix_Swapped(A, B) ==
  LET mA == Rows(A)
      nA == Cols(A)
      mB == Rows(B)
      nB == Cols(B)
      HX_left == Kron(A, Eye(nB))
      HX_right == Kron(Eye(mA), Transpose(B))
      HZ_left == Kron(Eye(nA), B)
      HZ_right == Kron(Transpose(A), Eye(mB))
  IN [HX |-> HStack(HX_left, HX_right), HZ |-> HStack(HZ_right, HZ_left)]

HGP_get_parity_check_matrix(A, B) ==
  LET mA == Rows(A)
      nA == Cols(A)
      mB == Rows(B)
      nB == Cols(B)
      HX_left == Kron(A, Eye(nB))
      HX_right == Kron(Eye(mA), Transpose(B))
      HZ_left == Kron(Eye(nA), B)
      HZ_right == Kron(Transpose(A), Eye(mB))
  IN [HX |-> HStack(HX_left, HX_right), HZ |-> HStack(HZ_left, HZ_right)]

\* HGP._css_condition: TRUE when it returns, FALSE when it raises
HGP_css_condition(H_X, H_Z) == AllEvenMod2(DotTranspose(H_X, H_Z))

\* HGP._get_n_ computing n from the wrong pairing of the shapes
HGP_get_n_WrongPairing(mA, mB, nA, nB, H_X, H_Z) ==
  LET n == mA * nA + mB * nB
  IN [raised |-> n # Cols(H_X) \/ n # Cols(H_Z), value |-> n]

\* HGP._get_n_: the value, and whether it raises instead of returning it
HGP_get_n(mA, mB, nA, nB, H_X, H_Z) ==
  LET n == mA * mB + nA * nB
  IN [raised |-> n # Cols(H_X) \/ n # Cols(H_Z), value |-> n]

\* HGP._get_k_ with the second product taken with kB instead of kBT
HGP_get_k_WrongFactor(A, B) ==
  LET kA == Cols(A) - RankGF2(A)
      kB == Cols(B) - RankGF2(B)
      kAT == Rows(A) - RankGF2(Transpose(A))
  IN kA * kB + kAT * kB

\* HGP._get_k_ without the transpose term
HGP_get_k_NoTransposeTerm(A, B) ==
  LET kA == Cols(A) - RankGF2(A)
      kB == Cols(B) - RankGF2(B)
  IN kA * kB

HGP_get_k(A, B) ==
  LET rank_A == RankGF2(A)
      rank_B == RankGF2(B)
      rank_AT == RankGF2(Transpose(A))
      rank_BT == RankGF2(Transpose(B))
      kA == Cols(A) - rank_A
      kB == Cols(B) - rank_B
      kAT == Rows(A) - rank_AT
      kBT == Rows(B) - rank_BT
  IN kA * kB + kAT * kBT

\* the default of a missing A, without the transpose
HGP_default_A_NoTranspose(A, B) == IF A = None THEN B ELSE A

\* "if A is None: A = B.T"
HGP_default_A(A, B) == IF A = None THEN Transpose(B) ELSE A

\* "if B is None: B = A.T" (A already defaulted)
HGP_default_B(A, B) == IF B = None THEN Transpose(A) ELSE B

\* HGP.__init__: err is the exception raised ("" when none), self the
\* attributes assigned so far
HGP_init(argA, argB) ==
  IF argA = None /\ argB = None
  THEN [err |-> "At least one of the matrices A or B must be provided.",
        self |-> << >>]
  ELSE
    LET A == HGP_default_A(argA, argB)
        B == HGP_default_B(A, argB)
        s1 == [A |-> A, B |-> B, mA |-> Rows(A), mB |-> Rows(B),
               nA |-> Cols(A), nB |-> Cols(B)]
        H == HGP_get_parity_check_matrix(A, B)
        s2 == s1 @@ [H_X |-> H.HX, H_Z |-> H.HZ]
        n == HGP_get_n(s1.mA, s1.mB, s1.nA, s1.nB, H.HX, H.HZ)
    IN IF ~HGP_css_condition(H.HX, H.HZ)
       THEN [err |-> "CSS condition does not hold.", self |-> s2]
       ELSE IF n.raised
       THEN [err |-> "Computed n does not match parity check matrix shape.",
             self |-> s2]
       ELSE [err |-> "", self |-> s2 @@ [n |-> n.value, k |-> HGP_get_k(A, B)]]

\* The classical parity-check matrices a caller passes.
ClassicalShapes ==
  {sh \in (1..MaxCells) \X (1..MaxCells) : sh[1] * sh[2] <= MaxCells}

ClassicalMatrices == UNION {BinMatrices(sh[1], sh[2]) : sh \in ClassicalShapes}

HGPArgs == ClassicalMatrices \cup {None}

HGPCall(A, B) == [pc |-> "call", argA |-> A, argB |-> B]

\* hgp = HGP(A, B)
HGPConstruct ==
  /\ hgp.pc = "call"
  /\ hgp' = [pc |-> "done", argA |-> hgp.argA, argB |-> hgp.argB,
             res |-> HGP_init(hgp.argA, hgp.argB)]
  /\ UNCHANGED <<gam, lft, bin, lpc>>

InitHGP ==
  /\ hgp \in {HGPCall(A, B) : A \in HGPArgs, B \in HGPArgs}
  /\ gam = Idle
  /\ lft = Idle
  /\ bin = Idle
  /\ lpc = Idle

SpecHGP == InitHGP /\ [][HGPConstruct]_vars

\* A construction from two given matrices has finished.
HGPDoneBoth == hgp.pc = "done" /\ hgp.argA # None /\ hgp.argB # None

\* C1: for every pair of binary matrices A and B the H_X and H_Z that HGP
\* builds satisfy H_X * H_Z^T = 0 (mod 2) in every entry, and the constructor
\* never raises "CSS condition does not hold."
C1_CSSOrthogonality ==
  HGPDoneBoth =>
    /\ hgp.res.err # "CSS condition does not hold."
    /\ AllEvenMod2(DotTranspose(hgp.res.self.H_X, hgp.res.self.H_Z))

\* a finished construction whose integer product H_X * H_Z^T has an entry 2:
\* the two block products meet and cancel only modulo 2
C1_Witness ==
  /\ HGPDoneBoth
  /\ LET P == DotTranspose(hgp.res.self.H_X, hgp.res.self.H_Z)
     IN \E i \in 1..Rows(P) : \E j \in 1..Cols(P) : P[i][j] = 2

\* C2: HGP(A, B) reports n = mA*mB + nA*nB, which is the column count of
\* both H_X and H_Z; H_X has mA*nB rows and H_Z has nA*mB rows; the n
\* mismatch error is never raised
C2_QubitCount ==
  HGPDoneBoth =>
    LET o == hgp.res.self
        mA == Rows(hgp.argA)
        nA == Cols(hgp.argA)
        mB == Rows(hgp.argB)
        nB == Cols(hgp.argB)
    IN /\ hgp.res.err = ""
       /\ o.n = mA * mB + nA * nB
       /\ o.n = Cols(o.H_X)
       /\ o.n = Cols(o.H_Z)
       /\ Rows(o.H_X) = mA * nB
       /\ Rows(o.H_Z) = nA * mB

\* a finished construction from two non-square matrices, where the pairing
\* of the shape numbers matters
C2_Witness ==
  /\ HGPDoneBoth
  /\ hgp.res.err = ""
  /\ Rows(hgp.argA) # Cols(hgp.argA)
  /\ Rows(hgp.argB) # Cols(hgp.argB)
  /\ hgp.res.self.n # Rows(hgp.argA) * Cols(hgp.argA)
                       + Rows(hgp.argB) * Cols(hgp.argB)

\* C7 as stated: there are binary matrices A and B for which HGP(A, B).k
\* differs from HGP(B, A).k
\* (among the matrices a caller passes, once a construction has finished)
C7_KNotSymmetric ==
  HGPDoneBoth =>
    \E A \in ClassicalMatrices : \E B \in ClassicalMatrices :
      HGP_init(A, B).self.k # HGP_init(B, A).self.k

\* C7 as amended: the logical qubit count is symmetric in the two arguments,
\* HGP(A, B).k = HGP(B, A).k for every pair of binary matrices
C7_KSymmetric ==
  HGPDoneBoth => hgp.res.self.k = HGP_init(hgp.argB, hgp.argA).self.k

\* a finished construction with k > 0 from two matrices of different shape,
\* neither the other's transpose
C7_Witness ==
  /\ HGPDoneBoth
  /\ hgp.res.self.k > 0
  /\ Rows(hgp.argA) # Rows(hgp.argB)
  /\ Cols(hgp.argA) # Cols(hgp.argB)
  /\ hgp.argB # Transpose(hgp.argA)

\* C8: HGP(A=None, B=B) is exactly HGP(A=B^T, B=B), and HGP(A=A, B=None) is
\* exactly HGP(A=A, B=A^T): same H_X, H_Z, n and k
C8_DefaultIsTranspose ==
  /\ (hgp.pc = "done" /\ hgp.argA = None /\ hgp.argB # None)
       => hgp.res = HGP_init(Transpose(hgp.argB), hgp.argB)
  /\ (hgp.pc = "done" /\ hgp.argB = None /\ hgp.argA # None)
       => hgp.res = HGP_init(hgp.argA, Transpose(hgp.argA))

\* a finished construction from a non-square B alone
C8_Witness ==
  /\ hgp.pc = "done"
  /\ hgp.argA = None
  /\ hgp.argB # None
  /\ Rows(hgp.argB) # Cols(hgp.argB)
  /\ hgp.res.err = ""
  /\ hgp.res.self.A = Transpose(hgp.argB)

\* C10: the k that HGP reports is non-negative and is the number of logical
\* qubits of the CSS code it built, n - rank(H_X) - rank(H_Z) over GF(2)
C10_KIsLogicalQubits ==
  HGPDoneBoth =>
    LET o == hgp.res.self
    IN /\ o.k >= 0
       /\ o.k = o.n - RankGF2(o.H_X) - RankGF2(o.H_Z)

\* a finished construction with k > 0 whose H_X and H_Z both have dependent
\* rows
C10_Witness ==
  /\ HGPDoneBoth
  /\ hgp.res.self.k > 0
  /\ RankGF2(hgp.res.self.H_X) < Rows(hgp.res.self.H_X)
  /\ RankGF2(hgp.res.self.H_Z) < Rows(hgp.res.self.H_Z)


\* ----------------------------------------------------------- algebra.py
\* RingElement: its coeffs, a binary vector over the generators x, y.
RingElements == [1..2 -> Bits]

\* RingElement.__add__
RingAdd(a, b) == XorRow(a, b)

\* multiply(a, b)
multiply(a, b) ==
  LET ax == a[1]
      ay == a[2]
      bx == b[1]
      by == b[2]
      c == (ax * by + ay * bx) % 2
  IN <<c, c>>

\* GroupAlgebraElement(coeffs, group_size)
GroupAlgebraElement(coeffs, group_size) == [coeffs |-> coeffs, n |-> group_size]

\* The elements of GF(2)[Z_L] with a coefficient vector of length L.
GAElements(L) == {GroupAlgebraElement(c, L) : c \in [1..L -> Bits]}

\* GroupAlgebraElement([0]*L, L)
GAZero(L) == GroupAlgebraElement([t \in 1..L |-> 0], L)

\* GroupAlgebraElement.__add__
GAAdd(a, b) == GroupAlgebraElement(XorRow(a.coeffs, b.coeffs), a.n)

\* GroupAlgebraElement.__mul__ toggling index (i - j) % n
GAMul_Difference(a, b) ==
  GroupAlgebraElement(
    [t \in 1..a.n |->
      Cardinality({ij \in (0..(Len(a.coeffs) - 1)) \X (0..(Len(b.coeffs) - 1)) :
                     /\ a.coeffs[ij[1] + 1] = 1
                     /\ b.coeffs[ij[2] + 1] = 1
                     /\ (ij[1] - ij[2]) % a.n = t - 1}) % 2],
    a.n)

\* GroupAlgebraElement.__mul__: result[(i + j) % n] is toggled once for every
\* pair of set coefficients a[i], b[j]
GAMul(a, b) ==
  GroupAlgebraElement(
    [t \in 1..a.n |->
      Cardinality({ij \in (0..(Len(a.coeffs) - 1)) \X (0..(Len(b.coeffs) - 1)) :
                     /\ a.coeffs[ij[1] + 1] = 1
                     /\ b.coeffs[ij[2] + 1] = 1
                     /\ (ij[1] + ij[2]) % a.n = t - 1}) % 2],
    a.n)

\* GroupAlgebraMatrix.__matmul__: raised when the shapes do not fit
GAMatMul(X, Y) ==
  IF Cols(X) # Rows(Y) THEN [raised |-> TRUE, data |-> << >>]
  ELSE
    LET L == X[1][1].n
        zero == GAZero(L)
        RECURSIVE s(_, _, _)
        s(i, j, k) == IF k = 0 THEN zero
                      ELSE GAAdd(s(i, j, k - 1), GAMul(X[i][k], Y[k][j]))
    IN [raised |-> FALSE,
        data |-> [i \in 1..Rows(X) |-> [j \in 1..Cols(Y) |-> s(i, j, Cols(X))]]]

\* GroupAlgebraMatrix.is_zero
GAIsZero(M) ==
  \A i \in 1..Rows(M) : \A j \in 1..Cols(M) :
    \A t \in 1..Len(M[i][j].coeffs) : M[i][j].coeffs[t] = 0

\* RingLifter.__init__
RingLifter(generator_images) ==
  [images |-> generator_images, L |-> generator_images[1].n]

\* RingLifter.lift with "result = img" for "result = result + img"
RingLifter_lift_Overwrite(lifter, ring_element) ==
  LET len == IF Len(ring_element) < Len(lifter.images)
             THEN Len(ring_element) ELSE Len(lifter.images)
      RECURSIVE result(_)
      result(i) == IF i = 0 THEN GAZero(lifter.L)
                   ELSE IF ring_element[i] = 1 THEN lifter.images[i]
                   ELSE result(i - 1)
  IN result(len)

\* RingLifter.lift: the sum of the images whose coefficient is set
RingLifter_lift(lifter, ring_element) ==
  LET len == IF Len(ring_element) < Len(lifter.images)
             THEN Len(ring_element) ELSE Len(lifter.images)
      RECURSIVE result(_)
      result(i) == IF i = 0 THEN GAZero(lifter.L)
                   ELSE IF ring_element[i] = 1
                        THEN GAAdd(result(i - 1), lifter.images[i])
                   ELSE result(i - 1)
  IN result(len)

\* ----------------------------------- group-algebra multiplication (C6)
\* ab = a * b, ba = b * a, ab_c = (a * b) * c, a_bc = a * (b * c)
GAMultiply ==
  /\ gam.pc = "call"
  /\ gam' = [pc |-> "done", a |-> gam.a, b |-> gam.b, c |-> gam.c,
             ab |-> GAMul(gam.a, gam.b),
             ba |-> GAMul(gam.b, gam.a),
             ab_c |-> GAMul(GAMul(gam.a, gam.b), gam.c),
             a_bc |-> GAMul(gam.a, GAMul(gam.b, gam.c))]
  /\ UNCHANGED <<hgp, lft, bin, lpc>>

InitGroupAlgebra ==
  /\ \E L \in 1..MaxL :
       gam \in {[pc |-> "call", a |-> a, b |-> b, c |-> c] :
                  a \in GAElements(L), b \in GAElements(L), c \in GAElements(L)}
  /\ hgp = Idle
  /\ lft = Idle
  /\ bin = Idle
  /\ lpc = Idle

SpecGroupAlgebra == InitGroupAlgebra /\ [][GAMultiply]_vars

\* C6: group-algebra multiplication is associative and commutative for
\* elements of one group order L with coefficient vectors of length L:
\* (a*b)*c = a*(b*c) and a*b = b*a, coefficient by coefficient
C6_AssociativeCommutative ==
  gam.pc = "done" => (gam.ab_c = gam.a_bc /\ gam.ab = gam.ba)

Weight(coeffs) == Cardinality({t \in 1..Len(coeffs) : coeffs[t] = 1})

\* three products of distinct elements with two or more terms each, over a
\* group of order 3 or more, with nonzero results: indices wrap around
C6_Witness ==
  /\ gam.pc = "done"
  /\ gam.a.n >= 3
  /\ gam.a # gam.b
  /\ gam.b # gam.c
  /\ gam.a # gam.c
  /\ Weight(gam.a.coeffs) >= 2
  /\ Weight(gam.b.coeffs) >= 2
  /\ Weight(gam.c.coeffs) >= 2
  /\ Weight(gam.ab.coeffs) >= 1
  /\ Weight(gam.ab_c.coeffs) >= 1

\* ------------------------------------------------------ RingLifter (C4)
\* lifter = RingLifter(images); the lifts of a*b and a+b, and the product
\* and the sum of the lifts
LiftElements ==
  /\ lft.pc = "call"
  /\ LET lifter == RingLifter(lft.images)
     IN lft' = [pc |-> "done", images |-> lft.images, a |-> lft.a, b |-> lft.b,
                lift_prod |-> RingLifter_lift(lifter, multiply(lft.a, lft.b)),
                prod_lift |-> GAMul(RingLifter_lift(lifter, lft.a),
                                    RingLifter_lift(lifter, lft.b)),
                lift_sum |-> RingLifter_lift(lifter, RingAdd(lft.a, lft.b)),
                sum_lift |-> GAAdd(RingLifter_lift(lifter, lft.a),
                                   RingLifter_lift(lifter, lft.b))]
  /\ UNCHANGED <<hgp, gam, bin, lpc>>

InitLifter ==
  /\ \E L \in 1..MaxL :
       lft \in {[pc |-> "call", images |-> <<g0, g1>>, a |-> a, b |-> b] :
                  g0 \in GAElements(L), g1 \in GAElements(L),
                  a \in RingElements, b \in RingElements}
  /\ hgp = Idle
  /\ gam = Idle
  /\ bin = Idle
  /\ lpc = Idle

SpecLifter == InitLifter /\ [][LiftElements]_vars

\* C4 as stated: lift is multiplicative, lift(multiply(a, b)) equals
\* lift(a) * lift(b) for all ring elements and all generator images of one L
C4_LiftMultiplicative == lft.pc = "done" => lft.lift_prod = lft.prod_lift

\* C4 as amended: lift is additive, lift(a + b) equals lift(a) + lift(b) for
\* all ring elements and all generator images of one L
C4_LiftAdditive == lft.pc = "done" => lft.lift_sum = lft.sum_lift

\* the lifts of x + y and x under two distinct nonzero images: the sum
\* cancels the image of x
C4_Witness ==
  /\ lft.pc = "done"
  /\ lft.a = <<1, 1>>
  /\ lft.b = <<1, 0>>
  /\ lft.images[1] # lft.images[2]
  /\ Weight(lft.images[1].coeffs) >= 1
  /\ Weight(lft.images[2].coeffs) >= 1
  /\ lft.lift_sum = lft.images[2]


\* ------------------------------------------------- lift_to_binary (C5)
\* cyclic_permutation without the wrap-around: a shift matrix
cyclic_permutation_NoWrap(k, L) ==
  [r \in 1..L |-> [c \in 1..L |-> IF c - 1 = (r - 1) + k THEN 1 ELSE 0]]

\* cyclic_permutation(k, L): P[i, (i + k) % L] = 1
cyclic_permutation(k, L) ==
  [r \in 1..L |-> [c \in 1..L |-> IF c - 1 = ((r - 1) + k) % L THEN 1 ELSE 0]]

\* lift_ga_element(ga): the XOR of cyclic_permutation(k, n) over the set
\* coefficients k
lift_ga_element(ga) ==
  LET RECURSIVE M(_)
      M(len) ==
        IF len = 0 THEN [r \in 1..ga.n |-> [c \in 1..ga.n |-> 0]]
        ELSE IF ga.coeffs[len] = 1
             THEN LET P == cyclic_permutation(len - 1, ga.n)
                      Q == M(len - 1)
                  IN [r \in 1..ga.n |-> XorRow(Q[r], P[r])]
        ELSE M(len - 1)
  IN M(Len(ga.coeffs))

\* lift_to_binary(GA): block (i, j) of H is lift_ga_element(GA[i, j])
lift_to_binary(GA) ==
  LET rows == Rows(GA)
      cols == Cols(GA)
      L == GA[1][1].n
      block == [i \in 1..rows |-> [j \in 1..cols |-> lift_ga_element(GA[i][j])]]
  IN [r \in 1..(rows * L) |->
       [c \in 1..(cols * L) |->
         block[((r - 1) \div L) + 1][((c - 1) \div L) + 1]
              [((r - 1) % L) + 1][((c - 1) % L) + 1]]]

\* HA @ HB on uint8 arrays
MatMulU8(P, Q) ==
  LET QT == Transpose(Q)
  IN [i \in 1..Rows(P) |->
       [j \in 1..Cols(Q) |-> Dot(P[i], QT[j], Cols(P)) % UInt8Modulus]]

\* The group-algebra matrices of shape rows x cols over Z_L.
GAMatrices(rows, cols, L) == [1..rows -> [1..cols -> GAElements(L)]]

\* (L, R, K, C): GA is R x K and GB is K x C over Z_L
LiftShapes ==
  {q \in (1..MaxLiftBits) \X (1..MaxLiftBits) \X (1..MaxLiftBits) \X (1..MaxLiftBits) :
     q[1] * q[3] * (q[2] + q[4]) <= MaxLiftBits}

\* GA @ GB in the group algebra, HA = lift_to_binary(GA),
\* HB = lift_to_binary(GB), and HA @ HB
BinaryLift ==
  /\ bin.pc = "call"
  /\ LET HA == lift_to_binary(bin.GA)
         HB == lift_to_binary(bin.GB)
     IN bin' = [pc |-> "done", GA |-> bin.GA, GB |-> bin.GB,
                GAGB |-> GAMatMul(bin.GA, bin.GB),
                HA |-> HA, HB |-> HB, HAHB |-> MatMulU8(HA, HB)]
  /\ UNCHANGED <<hgp, gam, lft, lpc>>

InitBinaryLift ==
  /\ \E q \in LiftShapes :
       bin \in {[pc |-> "call", GA |-> GA, GB |-> GB] :
                  GA \in GAMatrices(q[2], q[3], q[1]),
                  GB \in GAMatrices(q[3], q[4], q[1])}
  /\ hgp = Idle
  /\ gam = Idle
  /\ lft = Idle
  /\ lpc = Idle

SpecBinaryLift == InitBinaryLift /\ [][BinaryLift]_vars

\* C5: for group-algebra matrices GA, GB of compatible shapes over one L,
\* if GA @ GB is zero in the group algebra then
\* lift_to_binary(GA) @ lift_to_binary(GB) is 0 mod 2 in every entry
C5_BinaryLiftPreservesZero ==
  (bin.pc = "done" /\ ~bin.GAGB.raised /\ GAIsZero(bin.GAGB.data))
    => AllEvenMod2(bin.HAHB)

\* a zero product GA @ GB of matrices without a zero entry, whose binary
\* lifts have a product with an entry 2
C5_Witness ==
  /\ bin.pc = "done"
  /\ ~bin.GAGB.raised
  /\ GAIsZero(bin.GAGB.data)
  /\ \A i \in 1..Rows(bin.GA) : \A j \in 1..Cols(bin.GA) :
       Weight(bin.GA[i][j].coeffs) >= 1
  /\ \A i \in 1..Rows(bin.GB) : \A j \in 1..Cols(bin.GB) :
       Weight(bin.GB[i][j].coeffs) >= 1
  /\ \E i \in 1..Rows(bin.HAHB) : \E j \in 1..Cols(bin.HAHB) : bin.HAHB[i][j] = 2


\* ------------------------------------------------------------------- LPC
\* RingMatrix.__matmul__: raised when the shapes do not fit
RingMatMul(X, Y) ==
  IF Cols(X) # Rows(Y) THEN [raised |-> TRUE, data |-> << >>]
  ELSE
    LET zero == [t \in 1..Len(X[1][1]) |-> 0]
        RECURSIVE s(_, _, _)
        s(i, j, k) == IF k = 0 THEN zero
                      ELSE RingAdd(s(i, j, k - 1), multiply(X[i][k], Y[k][j]))
    IN [raised |-> FALSE,
        data |-> [i \in 1..Rows(X) |-> [j \in 1..Cols(Y) |-> s(i, j, Cols(X))]]]

\* RingMatrix.is_zero
RingIsZero(M) ==
  \A i \in 1..Rows(M) : \A j \in 1..Cols(M) :
    \A t \in 1..Len(M[i][j]) : M[i][j][t] = 0

\* The names bound in the namespace of LPCode.py: its imports and the class
\* it defines.
LPCodeGlobals ==
  {"code", "np", "RingElement", "RingMatrix", "GroupAlgebraElement",
   "RingLifter", "GroupAlgebraMatrix", "HGP", "LPC"}

\* [[lifter.lift(e) for e in row] for row in M.data]
LiftMatrix(lifter, M) ==
  [i \in 1..Rows(M) |-> [j \in 1..Cols(M) |-> RingLifter_lift(lifter, M[i][j])]]

\* LPC.__init__: err is the exception raised ("" when none), self the
\* attributes assigned so far
LPC_init(A_ring, B_ring, generator_images) ==
  LET AB == RingMatMul(A_ring, B_ring)
      lifter == RingLifter(generator_images)
      GA == LiftMatrix(lifter, A_ring)
      GB == LiftMatrix(lifter, B_ring)
      s1 == [A_ring |-> A_ring, B_ring |-> B_ring, lifter |-> lifter,
             GA |-> GA, GB |-> GB]
      HA == lift_to_binary(GA)
      HB == lift_to_binary(GB)
      s2 == s1 @@ [HA |-> HA, HB |-> HB]
      code == HGP_init(HA, HB)
  IN IF AB.raised THEN [err |-> "Dimension mismatch", self |-> << >>]
     ELSE IF ~RingIsZero(AB.data)
     THEN [err |-> "Abstract condition AB = 0 is not satisfied.", self |-> << >>]
     ELSE IF ~GAIsZero(GAMatMul(GA, GB).data)
     THEN [err |-> "Lifted condition AB = 0 failed in group algebra.",
           self |-> s1]
     ELSE IF "lift_to_binary" \notin LPCodeGlobals
     THEN [err |-> "NameError: name 'lift_to_binary' is not defined",
           self |-> s1]
     ELSE IF ~AllEvenMod2(MatMulU8(HA, HB))
     THEN [err |-> "Binary CSS condition HA HB = 0 failed.", self |-> s2]
     ELSE IF code.err # "" THEN [err |-> code.err, self |-> s2]
     ELSE [err |-> "",
           self |-> s2 @@ [hgp |-> code.self, H_X |-> code.self.H_X,
                           H_Z |-> code.self.H_Z, n |-> code.self.n,
                           k |-> code.self.k]]

\* The ring matrices of shape rows x cols.
RingMatrices(rows, cols) == [1..rows -> [1..cols -> RingElements]]

\* code = LPC(A_ring, B_ring, generator_images)
LPCConstruct ==
  /\ lpc.pc = "call"
  /\ lpc' = [pc |-> "done", A_ring |-> lpc.A_ring, B_ring |-> lpc.B_ring,
             images |-> lpc.images,
             res |-> LPC_init(lpc.A_ring, lpc.B_ring, lpc.images)]
  /\ UNCHANGED <<hgp, gam, lft, bin>>

InitLPC ==
  /\ \E L \in 1..MaxL : \E KA \in 1..MaxRingInner : \E KB \in 1..MaxRingInner :
       lpc \in {[pc |-> "call", A_ring |-> A, B_ring |-> B, images |-> <<g0, g1>>] :
                  A \in RingMatrices(1, KA), B \in RingMatrices(KB, 1),
                  g0 \in GAElements(L), g1 \in GAElements(L)}
  /\ hgp = Idle
  /\ gam = Idle
  /\ lft = Idle
  /\ bin = Idle

SpecLPC == InitLPC /\ [][LPCConstruct]_vars

\* The attributes H_X, H_Z, n, k of the code object are set.
LPCFieldsSet == {"H_X", "H_Z", "n", "k"} \subseteq DOMAIN lpc.res.self

\* C3: LPC validates in a fixed order and stops at the first failure:
\* (1) a nonzero A_ring @ B_ring raises before any lifting; (2) otherwise a
\* nonzero GA @ GB raises before any binary lift; (3) otherwise a nonzero
\* HA @ HB mod 2 raises before HGP is built; (4) otherwise HGP(HA, HB) is
\* built.  H_X, H_Z, n, k are set only when every check has passed.
C3_FailFastOrder ==
  (lpc.pc = "done" /\ Cols(lpc.A_ring) = Rows(lpc.B_ring)) =>
    LET lifter == RingLifter(lpc.images)
        GA == LiftMatrix(lifter, lpc.A_ring)
        GB == LiftMatrix(lifter, lpc.B_ring)
        HA == lift_to_binary(GA)
        HB == lift_to_binary(GB)
        code == HGP_init(HA, HB)
        self == lpc.res.self
    IN IF ~RingIsZero(RingMatMul(lpc.A_ring, lpc.B_ring).data)
       THEN /\ lpc.res.err = "Abstract condition AB = 0 is not satisfied."
            /\ "GA" \notin DOMAIN self
            /\ ~LPCFieldsSet
       ELSE IF ~GAIsZero(GAMatMul(GA, GB).data)
       THEN /\ lpc.res.err = "Lifted condition AB = 0 failed in group algebra."
            /\ "HA" \notin DOMAIN self
            /\ ~LPCFieldsSet
       ELSE IF ~AllEvenMod2(MatMulU8(HA, HB))
       THEN /\ lpc.res.err = "Binary CSS condition HA HB = 0 failed."
            /\ "hgp" \notin DOMAIN self
            /\ ~LPCFieldsSet
       ELSE /\ lpc.res.err = ""
            /\ LPCFieldsSet
            /\ self.hgp = code.self
            /\ self.H_X = code.self.H_X
            /\ self.H_Z = code.self.H_Z
            /\ self.n = code.self.n
            /\ self.k = code.self.k

\* The scenario of C9: x = [1,0], y = [0,1], A_ring = [[x, y]],
\* B_ring = [[y], [x]], g = [0,1,0,0], g^-1 = [0,0,0,1] over L = 4.
ExampleA == << << <<1, 0>>, <<0, 1>> >> >>

ExampleB == << << <<0, 1>> >>, << <<1, 0>> >> >>

ExampleImages ==
  << GroupAlgebraElement(<<0, 1, 0, 0>>, 4),
     GroupAlgebraElement(<<0, 0, 0, 1>>, 4) >>

LPCExampleDone ==
  /\ lpc.pc = "done"
  /\ lpc.A_ring = ExampleA
  /\ lpc.B_ring = ExampleB
  /\ lpc.images = ExampleImages

\* The three products of the scenario vanish, each in its own algebra.
ExampleProductsVanish ==
  LET lifter == RingLifter(ExampleImages)
      GA == LiftMatrix(lifter, ExampleA)
      GB == LiftMatrix(lifter, ExampleB)
  IN /\ RingIsZero(RingMatMul(ExampleA, ExampleB).data)
     /\ GAIsZero(GAMatMul(GA, GB).data)
     /\ AllEvenMod2(MatMulU8(lift_to_binary(GA), lift_to_binary(GB)))

\* C9: in the scenario A_ring @ B_ring, GA @ GB and HA @ HB mod 2 are zero,
\* and LPC(A_ring, B_ring, [g, g^-1]) constructs without raising and reports
\* n = 4*8 + 8*4 = 64, the column count of H_X and H_Z, and k >= 0
C9_ExampleConstructs ==
  LPCExampleDone =>
    /\ ExampleProductsVanish
    /\ lpc.res.err = ""
    /\ LPCFieldsSet
    /\ lpc.res.self.n = 4 * 8 + 8 * 4
    /\ lpc.res.self.n = Cols(lpc.res.self.H_X)
    /\ lpc.res.self.n = Cols(lpc.res.self.H_Z)
    /\ lpc.res.self.k >= 0

====
